---------------------------- MODULE Spec2Model ----------------------------
(***************************************************************************)
(* A model of wperron/o11yutil: the zombie traffic engine (cmd/zombie      *)
(* main, the client package's ping loop and its instrumented round         *)
(* trippers) and the debugprocessor span processor.                        *)
(***************************************************************************)
EXTENDS Integers, Sequences, FiniteSets, TLC

(***************************************************************************)
(* Bounds of the model.                                                    *)
(***************************************************************************)
\* largest configured workers value
MaxWorkers == 2
\* total number of loop iterations started by all the workers together
MaxCalls == 3
\* number of span identifiers the tracer hands out
MaxSpans == 3
\* largest level the ancestry walk counts to
MaxLvl == 4
\* largest base value handed to Jitter
MaxVal == 4
\* largest jitter fraction handed to Jitter, in tenths
MaxFrac == 20
\* largest configured delay, in milliseconds
MaxDelay == 2
\* largest number of bytes the handler writes
MaxWritten == 5

(***************************************************************************)
(* The configuration (config.Target) and the values a round trip returns.  *)
(***************************************************************************)
Names == {"", "svc"}

\* the targets of the configuration file, by their url
Urls == <<"http://a">>

Url(t) == Urls[t]

TargetIds == DOMAIN Urls

WorkerChoices == (0 - 1)..MaxWorkers

Targets == [name : Names, workers : WorkerChoices, otelEnabled : BOOLEAN]

Labels == (Names \ {""}) \cup {Url(t) : t \in TargetIds}

Codes == {200, 500}

Methods == {"GET"}

\* what next.RoundTrip returns: (resp, nil) or (nil, err)
Responses == [err : {FALSE}, code : Codes] \cup [err : {TRUE}, code : {0}]

NoResponse == [err |-> FALSE, code |-> 0]

\* the goroutines main can start: (target index, worker index i)
WorkerIds == TargetIds \X (0..(MaxWorkers - 1))

VARIABLES
    conf,            \* the loaded configuration: conf[t] is conf.Targets[t]
    proc,            \* the process: "running", "exit0", "exit1", "panic"
    mainPc,          \* position of main
    tracer,          \* TRUE once the package-level tracer is set
    sigs,            \* number of signals buffered in the sigs channel (cap 1)
    pc,              \* position of each Ping goroutine
    res,             \* the (resp, err) the current round trip returned
    inFlightGauge,   \* client_in_flight_requests{target}
    requestCounter,  \* client_api_requests_total{target,code,method}
    reqLatencyVec,   \* request_duration_seconds{target}: observation count
    span,            \* state of the worker's current zombie.ping span
    attempts,        \* transport round trips made in the current iteration
    fails,           \* consecutive iterations that ended in a transport error
    calls,           \* iterations started so far, all workers together
    okTrips,         \* history: transport successes so far, by counter series
    effects,         \* history: what the current client.Do has done, in order
    body,            \* the response body the worker holds: "none", "open", "closed"
    results,         \* number of client.Result values sent on main's out channel
    api              \* the API goroutine: "off", "serving", "failed"

VARIABLES
    spans,           \* Processor.spans: span id -> parent span id of the stored span
    out,             \* the lines written to Processor.out, in order
    opc,             \* position of each goroutine inside OnStart
    ospan,           \* the span s an OnStart call was given
    ocurr,           \* applyIndentation's curr
    lvl,             \* applyIndentation's lvl
    raced,           \* history: a map access overlapped another goroutine's write
    fatal,           \* the runtime stopped the process on a detected map race
    ends             \* history: an OnEnd call came after the last OnStart call

VARIABLES
    base,            \* Jitter's val
    fraction,        \* Jitter's jitter, in tenths
    draw,            \* what rand.Float64() returned, in tenths
    jittered,        \* Jitter's result
    jpc              \* "idle", "ready" (before the call), "returned"

VARIABLES
    tDuration,       \* what t.Duration() returns
    tJitter,         \* t.Jitter, in tenths
    delay,           \* the loop's delay
    jitter,          \* the loop's jitter, in tenths
    slept,           \* the duration handed to time.Sleep
    spc              \* "idle", "top", "chosen", "slept"

VARIABLES
    statusCode,      \* responseWriterDelegator.statusCode
    written,         \* responseWriterDelegator.written
    wroteHeader,     \* responseWriterDelegator.wroteHeader
    hStatus,         \* history: the status of the handler's last WriteHeader, 0 if none
    followed,        \* history: a Write or Flush came after the handler's last WriteHeader
    sent,            \* the status the embedded http.ResponseWriter has sent, 0 if none
    dpc              \* InstrumentedHandler: "serving" (in next.ServeHTTP), "returned"

delegatorVars == <<statusCode, written, wroteHeader, hStatus, followed, sent, dpc>>

jitterVars == <<base, fraction, draw, jittered, jpc>>

sleepVars == <<tDuration, tJitter, delay, jitter, slept, spc>>

procVars == <<spans, out, opc, ospan, ocurr, lvl, raced, fatal, ends>>

engineVars == <<conf, proc, mainPc, tracer, sigs, pc, res, inFlightGauge,
                requestCounter, reqLatencyVec, span, attempts, fails, calls,
                okTrips, effects, body, results, api>>

vars == <<engineVars, procVars, jitterVars, sleepVars, delegatorVars>>

nonEngineVars == <<procVars, jitterVars, sleepVars, delegatorVars>>

nonProcVars == <<engineVars, jitterVars, sleepVars, delegatorVars>>

nonJitterVars == <<engineVars, procVars, sleepVars, delegatorVars>>

nonSleepVars == <<engineVars, procVars, jitterVars, delegatorVars>>

nonDelegatorVars == <<engineVars, procVars, jitterVars, sleepVars>>

(***************************************************************************)
(* cmd/zombie main                                                         *)
(***************************************************************************)
\* someOtel returns true if at least one target has OtelEnabled=true
someOtel(c) == \E t \in DOMAIN c : c[t].otelEnabled

NsAlwaysUrl(t) == Url(t)

\* ns := t.Name; if ns == "" { ns = t.Url }
Ns(t) == IF conf[t].name = "" THEN Url(t) ELSE conf[t].name

NormWorkersNegativeOnly(w) == IF w < 0 THEN 1 ELSE w

\* workers := t.Workers; if workers <= 0 { workers = 1 }
NormWorkers(w) == IF w <= 0 THEN 1 ELSE w

\* the target label captured by the pinger's round trippers
Target(w) == Ns(w[1])

EngineIdle ==
    /\ proc = "running"
    /\ mainPc = "start"
    /\ tracer = FALSE
    /\ sigs = 0
    /\ pc = [w \in WorkerIds |-> "none"]
    /\ res = [w \in WorkerIds |-> NoResponse]
    /\ inFlightGauge = [l \in Labels |-> 0]
    /\ requestCounter = [k \in Labels \X Codes \X Methods |-> 0]
    /\ reqLatencyVec = [l \in Labels |-> 0]
    /\ span = [w \in WorkerIds |-> "none"]
    /\ attempts = [w \in WorkerIds |-> 0]
    /\ fails = [w \in WorkerIds |-> 0]
    /\ calls = 0
    /\ okTrips = [k \in Labels \X Codes \X Methods |-> 0]
    /\ effects = [w \in WorkerIds |-> <<>>]
    /\ body = [w \in WorkerIds |-> "none"]
    /\ results = [w \in WorkerIds |-> 0]

\* conf.Api != nil && conf.Api.Enabled
ApiChoices == {"off", "enabled"}

EngineInit ==
    /\ conf \in [TargetIds -> Targets]
    /\ api \in ApiChoices
    /\ EngineIdle

\* the goroutines the fan-out loop starts:
\* for _, t := range conf.Targets { ...; for i := 0; i < workers; i++ { go pinger.Ping(...) } }
Spawned(c) == {w \in WorkerIds : w[2] < NormWorkers(c[w[1]].workers)}

\* main from its first line to the receive on sigs: initTracing when
\* someOtel(conf), then the fan-out loop, whose first statement is
\* tracer.Start on the package-level tracer
MainStart ==
    /\ proc = "running"
    /\ mainPc = "start"
    /\ IF someOtel(conf)
       THEN \/ /\ tracer' = TRUE       \* tracer = otel.Tracer("zombie")
               /\ pc' = [w \in WorkerIds |-> IF w \in Spawned(conf) THEN "parse" ELSE "none"]
               /\ mainPc' = "waiting"
               /\ proc' = proc
            \/ /\ proc' = "exit1"      \* initTracing failed: os.Exit(1)
               /\ UNCHANGED <<tracer, mainPc, pc>>
       ELSE \* tracer.Start on the nil trace.Tracer: nil pointer dereference
            /\ proc' = "panic"
            /\ UNCHANGED <<tracer, mainPc, pc>>
    \* if conf.Api != nil && conf.Api.Enabled { go func() { ... api.Serve ... }() }
    /\ api' = IF api = "enabled" THEN "serving" ELSE api
    /\ UNCHANGED <<nonEngineVars, effects, body, results, okTrips, conf, sigs, res, inFlightGauge, requestCounter,
                   reqLatencyVec, span, attempts, fails, calls>>

\* SIGINT or SIGTERM is delivered to the buffered channel sigs (capacity 1)
SignalArrives ==
    /\ proc = "running"
    /\ sigs = 0
    /\ mainPc # "gotsig"
    /\ sigs' = 1
    /\ UNCHANGED <<nonEngineVars, effects, body, results, api, okTrips, conf, proc, mainPc, tracer, pc, res, inFlightGauge,
                   requestCounter, reqLatencyVec, span, attempts, fails, calls>>

\* s := <-sigs
MainRecvSignal ==
    /\ proc = "running"
    /\ mainPc = "waiting"
    /\ sigs = 1
    /\ sigs' = 0
    /\ mainPc' = "gotsig"
    /\ UNCHANGED <<nonEngineVars, effects, body, results, api, okTrips, conf, proc, tracer, pc, res, inFlightGauge,
                   requestCounter, reqLatencyVec, span, attempts, fails, calls>>

\* logger.Log("Got signal"), main returns and the process ends
MainReturn ==
    /\ proc = "running"
    /\ mainPc = "gotsig"
    /\ proc' = "exit0"
    /\ mainPc' = "done"
    /\ UNCHANGED <<nonEngineVars, effects, body, results, api, okTrips, conf, tracer, sigs, pc, res, inFlightGauge,
                   requestCounter, reqLatencyVec, span, attempts, fails, calls>>

ApiFailsFatal ==
    /\ api = "serving"
    /\ api' = "failed"
    /\ proc' = "exit1"
    /\ UNCHANGED <<nonEngineVars, effects, body, results, okTrips, conf, mainPc, tracer,
                   sigs, pc, res, inFlightGauge, requestCounter, reqLatencyVec, span,
                   attempts, fails, calls>>

\* the API goroutine: api.Serve(conf.Api.Addr) returns an error, at once or
\* later; logger.Log logs it and the goroutine ends
ApiFails ==
    /\ proc = "running"
    /\ api = "serving"
    /\ api' = "failed"
    /\ UNCHANGED <<nonEngineVars, effects, body, results, okTrips, conf, proc, mainPc,
                   tracer, sigs, pc, res, inFlightGauge, requestCounter, reqLatencyVec,
                   span, attempts, fails, calls>>

(***************************************************************************)
(* client: pinger.Ping and the instrumented round trippers                 *)
(***************************************************************************)
\* the goroutine runs to its first time.Sleep:
\* u, err := url.Parse(t.Url); if err != nil { log.Fatalf(...) }; req := ...
\* The outcome of url.Parse is a function of the target's URL: a failure is
\* possible only while no worker of the same target has parsed the URL.
PingStart(w) ==
    /\ proc = "running"
    /\ pc[w] = "parse"
    /\ \/ /\ calls < MaxCalls
          /\ calls' = calls + 1
          /\ pc' = [pc EXCEPT ![w] = "sleep"]
          /\ proc' = proc
       \/ /\ \A v \in WorkerIds : v[1] = w[1] => pc[v] \in {"none", "parse"}
          /\ proc' = "exit1"
          /\ UNCHANGED <<pc, calls>>
    /\ UNCHANGED <<nonEngineVars, effects, body, results, api, okTrips, conf, mainPc, tracer, sigs, res, inFlightGauge,
                   requestCounter, reqLatencyVec, span, attempts, fails>>

\* top of the for loop: delay, jitter, time.Sleep(Jitter(delay, jitter))
PingSleep(w) ==
    /\ proc = "running"
    /\ pc[w] = "top"
    /\ calls < MaxCalls
    /\ calls' = calls + 1
    /\ pc' = [pc EXCEPT ![w] = "sleep"]
    /\ UNCHANGED <<nonEngineVars, effects, body, results, api, okTrips, conf, proc, mainPc, tracer, sigs, res, inFlightGauge,
                   requestCounter, reqLatencyVec, span, attempts, fails>>

\* currCtx, span := p.tracer.Start(ctx, "zombie.ping", ...); req.WithContext
PingStartSpan(w) ==
    /\ proc = "running"
    /\ pc[w] = "sleep"
    /\ pc' = [pc EXCEPT ![w] = "span"]
    /\ span' = [span EXCEPT ![w] = "open"]
    /\ attempts' = [attempts EXCEPT ![w] = 0]
    /\ res' = [res EXCEPT ![w] = NoResponse]
    /\ effects' = [effects EXCEPT ![w] = <<>>]
    /\ UNCHANGED <<nonEngineVars, body, results, api, okTrips, conf, proc, mainPc, tracer, sigs, inFlightGauge,
                   requestCounter, reqLatencyVec, fails, calls>>

\* p.client.Do enters InstrumentRoundTripperInFlight: gauge.WithLabelValues(*target).Inc()
InFlightInc(w) ==
    /\ proc = "running"
    /\ pc[w] = "span"
    /\ inFlightGauge' = [inFlightGauge EXCEPT ![Target(w)] = @ + 1]
    /\ pc' = [pc EXCEPT ![w] = "inflight"]
    /\ effects' = [effects EXCEPT ![w] = Append(@, "gauge+")]
    /\ UNCHANGED <<nonEngineVars, body, results, api, okTrips, conf, proc, mainPc, tracer, sigs, res, requestCounter,
                   reqLatencyVec, span, attempts, fails, calls>>

\* the innermost next.RoundTrip(r): http.DefaultTransport answers or fails
RoundTrip(w) ==
    /\ proc = "running"
    /\ pc[w] = "inflight"
    /\ \E r \in Responses :
          /\ res' = [res EXCEPT ![w] = r]
          /\ okTrips' = IF r.err
                        THEN okTrips
                        ELSE [okTrips EXCEPT ![<<Target(w), r.code, "GET">>] = @ + 1]
    /\ attempts' = [attempts EXCEPT ![w] = @ + 1]
    /\ pc' = [pc EXCEPT ![w] = "returned"]
    /\ effects' = [effects EXCEPT ![w] = Append(@, "transport")]
    /\ body' = [body EXCEPT ![w] = IF res'[w].err THEN "none" ELSE "open"]
    /\ UNCHANGED <<nonEngineVars, results, api, conf, proc, mainPc, tracer, sigs, inFlightGauge,
                   requestCounter, reqLatencyVec, span, fails, calls>>

DurationObserveIsCounter(w) ==
    /\ proc = "running"
    /\ pc[w] = "returned"
    /\ requestCounter' =
           IF res[w].err
           THEN requestCounter
           ELSE [requestCounter EXCEPT ![<<Target(w), res[w].code, "GET">>] = @ + 1]
    /\ pc' = [pc EXCEPT ![w] = "observed"]
    /\ effects' = IF res[w].err
                  THEN effects
                  ELSE [effects EXCEPT ![w] = Append(@, "counter")]
    /\ UNCHANGED <<nonEngineVars, body, results, api, okTrips, conf, proc, mainPc, tracer, sigs,
                   res, inFlightGauge, reqLatencyVec, span, attempts, fails, calls>>

DurationObserveAlways(w) ==
    /\ proc = "running"
    /\ pc[w] = "returned"
    /\ reqLatencyVec' = [reqLatencyVec EXCEPT ![Target(w)] = @ + 1]
    /\ pc' = [pc EXCEPT ![w] = "observed"]
    /\ effects' = [effects EXCEPT ![w] = Append(@, "histogram")]
    /\ UNCHANGED <<nonEngineVars, body, results, api, okTrips, conf, proc, mainPc, tracer, sigs, res, inFlightGauge,
                   requestCounter, span, attempts, fails, calls>>

\* InstrumentRoundTripperDuration after next.RoundTrip:
\* if err == nil { obs.With(target).Observe(time.Since(start).Seconds()) }
DurationObserve(w) ==
    /\ proc = "running"
    /\ pc[w] = "returned"
    /\ reqLatencyVec' = IF res[w].err
                        THEN reqLatencyVec
                        ELSE [reqLatencyVec EXCEPT ![Target(w)] = @ + 1]
    /\ pc' = [pc EXCEPT ![w] = "observed"]
    /\ effects' = IF res[w].err
                  THEN effects
                  ELSE [effects EXCEPT ![w] = Append(@, "histogram")]
    /\ UNCHANGED <<nonEngineVars, body, results, api, okTrips, conf, proc, mainPc, tracer, sigs, res, inFlightGauge,
                   requestCounter, span, attempts, fails, calls>>

CounterIncAlways(w) ==
    /\ proc = "running"
    /\ pc[w] = "observed"
    /\ requestCounter' =
           [requestCounter EXCEPT
               ![<<Target(w), IF res[w].err THEN 500 ELSE res[w].code, "GET">>] = @ + 1]
    /\ pc' = [pc EXCEPT ![w] = "counted"]
    /\ effects' = [effects EXCEPT ![w] = Append(@, "counter")]
    /\ UNCHANGED <<nonEngineVars, body, results, api, okTrips, conf, proc, mainPc, tracer, sigs, res, inFlightGauge,
                   reqLatencyVec, span, attempts, fails, calls>>

CounterIncSet(w) ==
    /\ proc = "running"
    /\ pc[w] = "observed"
    /\ requestCounter' =
           IF res[w].err
           THEN requestCounter
           ELSE [requestCounter EXCEPT ![<<Target(w), res[w].code, "GET">>] = 1]
    /\ pc' = [pc EXCEPT ![w] = "counted"]
    /\ effects' = IF res[w].err
                  THEN effects
                  ELSE [effects EXCEPT ![w] = Append(@, "counter")]
    /\ UNCHANGED <<nonEngineVars, body, results, api, okTrips, conf, proc, mainPc, tracer, sigs, res, inFlightGauge,
                   reqLatencyVec, span, attempts, fails, calls>>

\* InstrumentRoundTripperCounter after next.RoundTrip:
\* if err == nil { counter.With(code, method, target).Inc() }
CounterInc(w) ==
    /\ proc = "running"
    /\ pc[w] = "observed"
    /\ requestCounter' =
           IF res[w].err
           THEN requestCounter
           ELSE [requestCounter EXCEPT ![<<Target(w), res[w].code, "GET">>] = @ + 1]
    /\ pc' = [pc EXCEPT ![w] = "counted"]
    /\ effects' = IF res[w].err
                  THEN effects
                  ELSE [effects EXCEPT ![w] = Append(@, "counter")]
    /\ UNCHANGED <<nonEngineVars, body, results, api, okTrips, conf, proc, mainPc, tracer, sigs, res, inFlightGauge,
                   reqLatencyVec, span, attempts, fails, calls>>

InFlightDecTwice(w) ==
    /\ proc = "running"
    /\ pc[w] = "counted"
    /\ inFlightGauge' = [inFlightGauge EXCEPT ![Target(w)] = @ - 2]
    /\ pc' = [pc EXCEPT ![w] = "done"]
    /\ effects' = [effects EXCEPT ![w] = Append(@, "gauge-")]
    /\ UNCHANGED <<nonEngineVars, body, results, api, okTrips, conf, proc, mainPc, tracer,
                   sigs, res, requestCounter, reqLatencyVec, span, attempts, fails, calls>>

InFlightDecOnSuccess(w) ==
    /\ proc = "running"
    /\ pc[w] = "counted"
    /\ inFlightGauge' = IF res[w].err
                        THEN inFlightGauge
                        ELSE [inFlightGauge EXCEPT ![Target(w)] = @ - 1]
    /\ pc' = [pc EXCEPT ![w] = "done"]
    /\ effects' = IF res[w].err
                  THEN effects
                  ELSE [effects EXCEPT ![w] = Append(@, "gauge-")]
    /\ UNCHANGED <<nonEngineVars, body, results, api, okTrips, conf, proc, mainPc, tracer, sigs, res, requestCounter,
                   reqLatencyVec, span, attempts, fails, calls>>

\* InstrumentRoundTripperInFlight returns: defer gauge.WithLabelValues(*target).Dec()
InFlightDec(w) ==
    /\ proc = "running"
    /\ pc[w] = "counted"
    /\ inFlightGauge' = [inFlightGauge EXCEPT ![Target(w)] = @ - 1]
    /\ pc' = [pc EXCEPT ![w] = "done"]
    /\ effects' = [effects EXCEPT ![w] = Append(@, "gauge-")]
    /\ UNCHANGED <<nonEngineVars, body, results, api, okTrips, conf, proc, mainPc, tracer, sigs, res, requestCounter,
                   reqLatencyVec, span, attempts, fails, calls>>

PingFinishLeaksSpanOnError(w) ==
    /\ proc = "running"
    /\ pc[w] = "done"
    /\ span' = [span EXCEPT ![w] = IF res[w].err THEN @ ELSE "ended"]
    /\ fails' = [fails EXCEPT ![w] = IF res[w].err THEN @ + 1 ELSE 0]
    /\ pc' = [pc EXCEPT ![w] = "top"]
    /\ res' = [res EXCEPT ![w] = NoResponse]
    /\ attempts' = [attempts EXCEPT ![w] = 0]
    /\ body' = [body EXCEPT ![w] = IF res[w].err THEN @ ELSE "closed"]
    /\ UNCHANGED <<nonEngineVars, effects, results, api, okTrips, conf, proc, mainPc,
                   tracer, sigs, inFlightGauge, requestCounter, reqLatencyVec, calls>>

PingFinishLeavesBodyOpen(w) ==
    /\ proc = "running"
    /\ pc[w] = "done"
    /\ span' = [span EXCEPT ![w] = IF res[w].err THEN "endedError" ELSE "ended"]
    /\ fails' = [fails EXCEPT ![w] = IF res[w].err THEN @ + 1 ELSE 0]
    /\ pc' = [pc EXCEPT ![w] = "top"]
    /\ res' = [res EXCEPT ![w] = NoResponse]
    /\ attempts' = [attempts EXCEPT ![w] = 0]
    /\ UNCHANGED <<nonEngineVars, effects, body, results, api, okTrips, conf, proc, mainPc,
                   tracer, sigs, inFlightGauge, requestCounter, reqLatencyVec, calls>>

PingFinishReturnOnError(w) ==
    /\ proc = "running"
    /\ pc[w] = "done"
    /\ span' = [span EXCEPT ![w] = IF res[w].err THEN "endedError" ELSE "ended"]
    /\ fails' = [fails EXCEPT ![w] = IF res[w].err THEN @ + 1 ELSE 0]
    /\ pc' = [pc EXCEPT ![w] = IF res[w].err THEN "exit" ELSE "top"]
    /\ res' = [res EXCEPT ![w] = NoResponse]
    /\ attempts' = [attempts EXCEPT ![w] = 0]
    /\ body' = [body EXCEPT ![w] = IF res[w].err THEN @ ELSE "closed"]
    /\ UNCHANGED <<nonEngineVars, effects, results, api, okTrips, conf, proc, mainPc, tracer, sigs, inFlightGauge,
                   requestCounter, reqLatencyVec, calls>>

\* res, err := p.client.Do(&req) has returned:
\* if err != nil { span.RecordError(err); span.SetStatus(codes.Error, ...) }
\* else { ioutil.ReadAll(res.Body); res.Body.Close(); span.SetAttributes(...) }
\* span.End(), and the loop goes round
PingFinish(w) ==
    /\ proc = "running"
    /\ pc[w] = "done"
    /\ span' = [span EXCEPT ![w] = IF res[w].err THEN "endedError" ELSE "ended"]
    /\ fails' = [fails EXCEPT ![w] = IF res[w].err THEN @ + 1 ELSE 0]
    /\ pc' = [pc EXCEPT ![w] = "top"]
    /\ res' = [res EXCEPT ![w] = NoResponse]
    /\ attempts' = [attempts EXCEPT ![w] = 0]
    /\ body' = [body EXCEPT ![w] = IF res[w].err THEN @ ELSE "closed"]
    /\ UNCHANGED <<nonEngineVars, effects, results, api, okTrips, conf, proc, mainPc, tracer, sigs, inFlightGauge,
                   requestCounter, reqLatencyVec, calls>>

EngineNext ==
    \/ MainStart
    \/ SignalArrives
    \/ MainRecvSignal
    \/ MainReturn
    \/ ApiFails
    \/ \E w \in WorkerIds : PingStart(w)
    \/ \E w \in WorkerIds : PingSleep(w)
    \/ \E w \in WorkerIds : PingStartSpan(w)
    \/ \E w \in WorkerIds : InFlightInc(w)
    \/ \E w \in WorkerIds : RoundTrip(w)
    \/ \E w \in WorkerIds : DurationObserve(w)
    \/ \E w \in WorkerIds : CounterInc(w)
    \/ \E w \in WorkerIds : InFlightDec(w)
    \/ \E w \in WorkerIds : PingFinish(w)

(***************************************************************************)
(* debugprocessor: Processor.OnStart and applyIndentation                  *)
(***************************************************************************)
SpanIDs == 1..MaxSpans

\* the goroutines that start spans
Goroutines == {"g1", "g2"}

\* a span as OnStart sees it: its SpanContext().SpanID() and its
\* Parent().SpanID(); the zero SpanID (0) is the parent of a root span
SpanValues == [id : SpanIDs, parent : {0} \cup SpanIDs]

NoSpan == [id |-> 0, parent |-> 0]

\* the processor as its builder hands it to the tracer provider
\* (debugprocessor.New().WithWriter(f).Build(), main.go:204): an empty map
ProcInit ==
    /\ spans = [i \in {} |-> 0]
    /\ out = <<>>
    /\ opc = [g \in Goroutines |-> "idle"]
    /\ ospan = [g \in Goroutines |-> NoSpan]
    /\ ocurr = [g \in Goroutines |-> NoSpan]
    /\ lvl = [g \in Goroutines |-> 0]
    /\ raced = FALSE
    /\ fatal = FALSE
    /\ ends = FALSE

\* span ids already handed to OnStart (span ids are unique)
Started == DOMAIN spans \cup {ospan[g].id : g \in {h \in Goroutines : opc[h] = "write"}}

\* some goroutine is writing the map while another one writes or reads it
Overlap(o) == \E g, h \in Goroutines : g # h /\ o[g] = "write" /\ o[h] \in {"write", "walk"}

\* goroutine g's access to the map overlaps a write by another goroutine
Racing(g) == \E h \in Goroutines : h # g /\ opc[h] = "write"

\* OnStart is entered and starts p.spans[s.SpanContext().SpanID()] = s.
\* After a data race the behaviour of the program is undefined: the model
\* follows the racing calls to their end and starts no further span.
OnStartCall(g, s) ==
    /\ ~fatal
    /\ ~raced
    /\ opc[g] = "idle"
    /\ s.id \notin Started
    /\ opc' = [opc EXCEPT ![g] = "write"]
    /\ ospan' = [ospan EXCEPT ![g] = s]
    /\ raced' = (raced \/ Overlap(opc'))
    /\ ends' = FALSE
    /\ UNCHANGED <<nonProcVars, spans, out, ocurr, lvl, fatal>>

\* the map write completes; applyIndentation starts: curr := s, lvl = 0
OnStartWrite(g) ==
    /\ ~fatal
    /\ opc[g] = "write"
    /\ spans' = [i \in DOMAIN spans \cup {ospan[g].id} |->
                    IF i = ospan[g].id THEN ospan[g].parent ELSE spans[i]]
    /\ opc' = [opc EXCEPT ![g] = "walk"]
    /\ ocurr' = [ocurr EXCEPT ![g] = ospan[g]]
    /\ lvl' = [lvl EXCEPT ![g] = 0]
    /\ raced' = (raced \/ Overlap(opc'))
    /\ UNCHANGED <<nonProcVars, ends, out, ospan, fatal>>

\* next, ok := p.spans[curr.Parent().SpanID()]; ok && next != nil
Resolves(reg, key) == key \in DOMAIN reg

WalkStepOnce(g) ==
    /\ ~fatal
    /\ opc[g] = "walk"
    /\ Resolves(spans, ocurr[g].parent)
    /\ lvl[g] < MaxLvl
    /\ lvl' = [lvl EXCEPT ![g] = @ + 1]
    /\ ocurr' = [ocurr EXCEPT ![g] = [id |-> ocurr[g].parent, parent |-> 0]]
    /\ UNCHANGED <<nonProcVars, ends, spans, out, opc, ospan, raced, fatal>>

\* the parent is in the map: lvl++; curr = next; continue
WalkStep(g) ==
    /\ ~fatal
    /\ opc[g] = "walk"
    /\ Resolves(spans, ocurr[g].parent)
    /\ lvl[g] < MaxLvl
    /\ lvl' = [lvl EXCEPT ![g] = @ + 1]
    /\ ocurr' = [ocurr EXCEPT ![g] = [id |-> ocurr[g].parent,
                                       parent |-> spans[ocurr[g].parent]]]
    /\ UNCHANGED <<nonProcVars, ends, spans, out, opc, ospan, raced, fatal>>

\* the line OnStart writes: the span, its indentation depth, and (history)
\* the span ids that were in the map when the walk ended
Line(g, depth) == [id |-> ospan[g].id, depth |-> depth, reg |-> DOMAIN spans]

OnStartReturnRewritesChildren(g) ==
    /\ ~fatal
    /\ opc[g] = "walk"
    /\ ~Resolves(spans, ocurr[g].parent) \/ Racing(g)
    /\ out' = Append([i \in 1..Len(out) |->
                        IF spans[out[i].id] = ospan[g].id
                        THEN [out[i] EXCEPT !.depth = @ + lvl[g] + 1]
                        ELSE out[i]],
                     Line(g, lvl[g]))
    /\ opc' = [opc EXCEPT ![g] = "idle"]
    /\ ospan' = [ospan EXCEPT ![g] = NoSpan]
    /\ ocurr' = [ocurr EXCEPT ![g] = NoSpan]
    /\ lvl' = [lvl EXCEPT ![g] = 0]
    /\ UNCHANGED <<nonProcVars, ends, spans, raced, fatal>>

OnStartReturnCountingMissing(g) ==
    /\ ~fatal
    /\ opc[g] = "walk"
    /\ ~Resolves(spans, ocurr[g].parent) \/ Racing(g)
    /\ out' = Append(out, Line(g, lvl[g] + IF ocurr[g].parent = 0 THEN 0 ELSE 1))
    /\ opc' = [opc EXCEPT ![g] = "idle"]
    /\ ospan' = [ospan EXCEPT ![g] = NoSpan]
    /\ ocurr' = [ocurr EXCEPT ![g] = NoSpan]
    /\ lvl' = [lvl EXCEPT ![g] = 0]
    /\ UNCHANGED <<nonProcVars, ends, spans, raced, fatal>>

\* the parent is not in the map: curr = nil, applyIndentation returns lvl and
\* OnStart writes the line with strings.Repeat(p.indent, lvl) in front.
\* A lookup that overlaps another goroutine's write is a data race and may
\* also miss a key that is in the map.
OnStartReturn(g) ==
    /\ ~fatal
    /\ opc[g] = "walk"
    /\ ~Resolves(spans, ocurr[g].parent) \/ Racing(g)
    /\ out' = Append(out, Line(g, lvl[g]))
    /\ opc' = [opc EXCEPT ![g] = "idle"]
    /\ ospan' = [ospan EXCEPT ![g] = NoSpan]
    /\ ocurr' = [ocurr EXCEPT ![g] = NoSpan]
    /\ lvl' = [lvl EXCEPT ![g] = 0]
    /\ UNCHANGED <<nonProcVars, ends, spans, raced, fatal>>

\* the Go runtime detects the unsynchronised map access and throws
\* "fatal error: concurrent map writes" / "concurrent map read and map write"
MapRaceFatal(g) ==
    /\ ~fatal
    /\ opc[g] \in {"write", "walk"}
    /\ Racing(g)
    /\ fatal' = TRUE
    /\ UNCHANGED <<nonProcVars, ends, spans, out, opc, ospan, ocurr, lvl, raced>>

\* the spans whose OnStart has returned
Returned == DOMAIN spans \ {ospan[g].id : g \in {h \in Goroutines : opc[h] = "walk"}}

OnEndRemovesEntry(g) ==
    /\ ~fatal
    /\ opc[g] = "idle"
    /\ Returned # {}
    /\ ends' = TRUE
    /\ \E k \in Returned : spans' = [i \in DOMAIN spans \ {k} |-> spans[i]]
    /\ UNCHANGED <<nonProcVars, out, opc, ospan, ocurr, lvl, raced, fatal>>

OnEndWritesLine(g) ==
    /\ ~fatal
    /\ opc[g] = "idle"
    /\ Returned # {}
    /\ ends' = TRUE
    /\ out' = Append(out, [id |-> 0, depth |-> 0, reg |-> DOMAIN spans])
    /\ UNCHANGED <<nonProcVars, spans, opc, ospan, ocurr, lvl, raced, fatal>>

\* func (p *Processor) OnEnd(s sdktrace.ReadOnlySpan) {}: called by the
\* goroutine that ends a span whose OnStart has returned
OnEnd(g) ==
    /\ ~fatal
    /\ opc[g] = "idle"
    /\ Returned # {}
    /\ ends' = TRUE
    /\ UNCHANGED <<nonProcVars, spans, out, opc, ospan, ocurr, lvl, raced, fatal>>

ProcNext ==
    \/ \E g \in Goroutines, s \in SpanValues : OnStartCall(g, s)
    \/ \E g \in Goroutines : OnStartWrite(g)
    \/ \E g \in Goroutines : WalkStep(g)
    \/ \E g \in Goroutines : OnStartReturn(g)
    \/ \E g \in Goroutines : MapRaceFatal(g)
    \/ \E g \in Goroutines : OnEnd(g)

(***************************************************************************)
(* client: Jitter, and the top of pinger.Ping's loop                       *)
(*                                                                         *)
(* Fractions and random draws are counted in tenths: the fraction f stands *)
(* for f/10, the draw r for rand.Float64() = r/10, so that                 *)
(* rand.Float64()*2 - 1 is (2r - 10)/10 and ranges over -1, -0.8 .. 0.8.   *)
(***************************************************************************)
\* the values rand.Float64() returns, in [0, 1)
Draws == 0..9

\* time.Duration(x): the conversion of a float64 to an integer truncates
\* toward zero
Trunc(n, d) == IF n >= 0 THEN n \div d ELSE 0 - ((0 - n) \div d)

JitterNotCentred(val, frac, rnd) == Trunc(val * (100 + frac * (2 * rnd)), 100)

\* jittered = time.Duration(val * (1 + (jitter * (rand.Float64()*2 - 1))))
Jitter(val, frac, rnd) == Trunc(val * (100 + frac * (2 * rnd - 10)), 100)

JitterIdle ==
    /\ base = 0
    /\ fraction = 0
    /\ draw = 0
    /\ jittered = 0
    /\ jpc = "idle"

\* the arguments of a call of Jitter
JitterInit ==
    /\ base \in 0..MaxVal
    /\ fraction \in 0..MaxFrac
    /\ draw = 0
    /\ jittered = 0
    /\ jpc = "ready"

\* Jitter(val, jitter) draws its random number and returns
JitterCall ==
    /\ jpc = "ready"
    /\ \E r \in Draws :
          /\ draw' = r
          /\ jittered' = Jitter(base, fraction, r)
    /\ jpc' = "returned"
    /\ UNCHANGED <<nonJitterVars, base, fraction>>

JitterNext == JitterCall

\* the model counts durations in hundredths of a millisecond (time.Duration
\* counts nanoseconds): with delays of whole milliseconds and fractions and
\* draws in tenths every jittered delay is a whole number of either unit
Millisecond == 100

\* defaultDelay = 10000 * time.Millisecond
defaultDelay == 10000 * Millisecond

\* defaultJitter = 0.2
defaultJitter == 2

\* the configured delays, whole milliseconds, and the configured jitters
DurationChoices == {d * Millisecond : d \in (0 - 1)..MaxDelay}

JitterChoices == {0 - 5, 0, 5, 10, 15}

SleepIdle ==
    /\ tDuration = 0
    /\ tJitter = 0
    /\ delay = 0
    /\ jitter = 0
    /\ slept = 0
    /\ spc = "idle"

SleepInit ==
    /\ tDuration \in DurationChoices
    /\ tJitter \in JitterChoices
    /\ delay = 0
    /\ jitter = 0
    /\ slept = 0
    /\ spc = "top"

\* delay := float64(t.Duration()); if delay == 0.0 { delay = float64(defaultDelay) }
\* jitter := float64(t.Jitter); if jitter == 0.0 { jitter = float64(defaultJitter) }
ChooseDelay ==
    /\ spc = "top"
    /\ delay' = IF tDuration = 0 THEN defaultDelay ELSE tDuration
    /\ jitter' = IF tJitter = 0 THEN defaultJitter ELSE tJitter
    /\ spc' = "chosen"
    /\ UNCHANGED <<nonSleepVars, tDuration, tJitter, slept>>

\* time.Sleep(Jitter(delay, jitter)): a negative or zero duration returns at once
Sleep ==
    /\ spc = "chosen"
    /\ \E r \in Draws : slept' = Jitter(delay, jitter, r)
    /\ spc' = "slept"
    /\ UNCHANGED <<nonSleepVars, tDuration, tJitter, delay, jitter>>

\* the request is made and the loop goes round
LoopAgain ==
    /\ spc = "slept"
    /\ spc' = "top"
    /\ UNCHANGED <<nonSleepVars, tDuration, tJitter, delay, jitter, slept>>

SleepNext ==
    \/ ChooseDelay
    \/ Sleep
    \/ LoopAgain

(***************************************************************************)
(* responseWriterDelegator, the http.ResponseWriter InstrumentedHandler    *)
(* hands to the next handler                                               *)
(***************************************************************************)
\* the status codes a handler sets
StatusCodes == {200, 201, 404, 500, 503}

\* http.StatusOK
StatusOK == 200

\* newDelegator(w): &responseWriterDelegator{ResponseWriter: w}
DelegatorInit ==
    /\ statusCode = 0
    /\ written = 0
    /\ wroteHeader = FALSE
    /\ hStatus = 0
    /\ followed = FALSE
    /\ sent = 0
    /\ dpc = "serving"

\* func (d *responseWriterDelegator) WriteHeader(statusCode int) { d.statusCode = statusCode }
SetStatus(c) == statusCode' = c

\* the handler calls WriteHeader(c)
WriteHeader(c) ==
    /\ dpc = "serving"
    /\ SetStatus(c)
    /\ hStatus' = c
    /\ followed' = FALSE
    /\ UNCHANGED <<nonDelegatorVars, written, wroteHeader, sent, dpc>>

\* if !d.wroteHeader { d.WriteHeader(http.StatusOK) }
DefaultStatus == IF ~wroteHeader THEN SetStatus(StatusOK) ELSE UNCHANGED statusCode

\* the embedded http.ResponseWriter, whose WriteHeader the delegator never
\* calls, sends the status 200 with its first Write or Flush
Underlying == sent' = IF sent = 0 THEN StatusOK ELSE sent

\* the handler calls Write(b): n, err := d.ResponseWriter.Write(b); d.written += int64(n)
Write(n) ==
    /\ dpc = "serving"
    /\ written + n <= MaxWritten
    /\ DefaultStatus
    /\ Underlying
    /\ written' = written + n
    /\ followed' = TRUE
    /\ UNCHANGED <<nonDelegatorVars, wroteHeader, hStatus, dpc>>

\* the handler calls Flush(): d.ResponseWriter.(http.Flusher).Flush()
Flush ==
    /\ dpc = "serving"
    /\ DefaultStatus
    /\ Underlying
    /\ followed' = TRUE
    /\ UNCHANGED <<nonDelegatorVars, written, wroteHeader, hStatus, dpc>>

\* next.ServeHTTP(d, r) returns; the latency is observed and the line with
\* status=d.statusCode bytes=d.written is printed
ServeReturns ==
    /\ dpc = "serving"
    /\ dpc' = "returned"
    /\ UNCHANGED <<nonDelegatorVars, statusCode, written, wroteHeader, hStatus, followed, sent>>

DelegatorNext ==
    \/ \E c \in StatusCodes : WriteHeader(c)
    \/ \E n \in 0..MaxWritten : Write(n)
    \/ Flush
    \/ ServeReturns

(***************************************************************************)
(* Specifications                                                          *)
(***************************************************************************)
\* the configuration the processor's specification keeps fixed
PlainConf == [t \in TargetIds |-> [name |-> "", workers |-> 1, otelEnabled |-> TRUE]]

Init == EngineInit /\ ProcInit /\ JitterIdle /\ SleepIdle /\ DelegatorInit

Next == EngineNext

\* the traffic engine: main, the ping loops and their round trippers
Spec == Init /\ [][Next]_vars

InitProc ==
    /\ conf = PlainConf
    /\ api = "off"
    /\ EngineIdle
    /\ ProcInit
    /\ JitterIdle
    /\ SleepIdle
    /\ DelegatorInit

\* the span processor, called from concurrently running goroutines
SpecProc == InitProc /\ [][ProcNext]_vars

InitJitter ==
    /\ conf = PlainConf
    /\ api = "off"
    /\ EngineIdle
    /\ ProcInit
    /\ JitterInit
    /\ SleepIdle
    /\ DelegatorInit

\* calls of Jitter
SpecJitter == InitJitter /\ [][JitterNext]_vars

InitSleep ==
    /\ conf = PlainConf
    /\ api = "off"
    /\ EngineIdle
    /\ ProcInit
    /\ JitterIdle
    /\ SleepInit
    /\ DelegatorInit

\* the top of the ping loop of one worker
SpecSleep == InitSleep /\ [][SleepNext]_vars

InitDelegator ==
    /\ conf = PlainConf
    /\ api = "off"
    /\ EngineIdle
    /\ ProcInit
    /\ JitterIdle
    /\ SleepIdle
    /\ DelegatorInit

\* the calls a handler makes on one responseWriterDelegator
SpecDelegator == InitDelegator /\ [][DelegatorNext]_vars

(***************************************************************************)
(* Properties of the traffic engine (specification Spec)                   *)
(***************************************************************************)
\* the counter series a worker's current response belongs to
Series(w) == <<Target(w), res[w].code, "GET">>

AllSeries == Labels \X Codes \X Methods

\* the workers of label l between the gauge's Inc and its Dec
Calling(l) == {w \in WorkerIds : Target(w) = l /\ pc[w] \in {"inflight", "returned", "observed", "counted"}}

\* C1: the in-flight gauge of a target counts exactly the calls that have
\* passed its Inc and not yet its Dec: each call adds one before the
\* delegate runs and takes one away after it returned, response or error,
\* so with no call under way the gauge is back at zero.
InFlightBalanced == \A l \in Labels : inFlightGauge[l] = Cardinality(Calling(l))

\* two workers have completed a call each, one with a transport error and
\* one with a response, and every gauge reads zero
InFlightBalancedWitness ==
    \E w1, w2 \in WorkerIds :
        /\ w1 # w2
        /\ pc[w1] = "top" /\ fails[w1] > 0
        /\ pc[w2] = "top" /\ span[w2] = "ended"
        /\ \A l \in Labels : inFlightGauge[l] = 0

\* the shared cancellation signal has fired: SIGINT/SIGTERM was delivered
Cancelled == sigs = 1 \/ mainPc \in {"gotsig", "done"}

\* C2: once the cancellation signal has fired no worker starts a new loop
\* iteration (no new sleep, span or request).
NoIterationAfterCancel ==
    [][Cancelled => \A w \in WorkerIds : ~(pc[w] \in {"parse", "top"} /\ pc'[w] = "sleep")]_vars

\* worker w passes the completion counter's code after next.RoundTrip
CounterStep(w) == pc[w] = "observed" /\ pc'[w] = "counted"

\* C3: the completion counter changes only when a round trip returned no
\* error, and then exactly the (target, status code, method) series of that
\* response grows by one, whatever the status code; while the transport has
\* only returned errors every series stays at zero.
CounterOnlyOnSuccess ==
    /\ []((\A k \in AllSeries : okTrips[k] = 0) => (\A k \in AllSeries : requestCounter[k] = 0))
    /\ [][/\ \A w \in WorkerIds :
                CounterStep(w) =>
                    requestCounter' = IF res[w].err
                                      THEN requestCounter
                                      ELSE [requestCounter EXCEPT ![Series(w)] = @ + 1]
          /\ requestCounter' # requestCounter =>
                \E w \in WorkerIds : CounterStep(w) /\ ~res[w].err]_vars

\* one call has failed in the transport, another one was answered with
\* status 500, and the counter holds exactly that one response
CounterOnlyOnSuccessWitness ==
    \E w \in WorkerIds, l \in Labels :
        /\ fails[w] > 0
        /\ requestCounter[<<l, 500, "GET">>] = 1
        /\ \A k \in AllSeries \ {<<l, 500, "GET">>} : requestCounter[k] = 0
        /\ \A v \in WorkerIds : pc[v] \in {"none", "parse", "top"}

\* a response of series k has come back and is not yet counted
Uncounted(k) == {w \in WorkerIds : pc[w] \in {"returned", "observed"} /\ ~res[w].err /\ Series(w) = k}

\* C4: whenever no answered request is still on its way to the counter,
\* every series reads exactly the number of transport-successful GETs made
\* for its target and status code, also when several workers made them.
ExactRequestCount ==
    \A k \in AllSeries : Uncounted(k) = {} => requestCounter[k] = okTrips[k]

\* MaxCalls successful GETs with the same status code, and the series reads MaxCalls
ExactRequestCountWitness ==
    \E k \in AllSeries :
        /\ okTrips[k] = MaxCalls
        /\ requestCounter[k] = MaxCalls
        /\ \A w \in WorkerIds : pc[w] \in {"none", "parse", "top"}
        /\ \E w1, w2 \in WorkerIds : w1 # w2 /\ span[w1] = "ended" /\ span[w2] = "ended"

\* the ping loops started for target t
LoopsOf(t) == {w \in WorkerIds : w[1] = t /\ pc[w] # "none"}

\* C5: once main has run its fan-out loop, every target has exactly
\* max(1, workers) ping loops: 1 for workers <= 0, w for a positive w.
FanOutExact ==
    (mainPc # "start" \/ proc = "panic") =>
        \A t \in TargetIds :
            Cardinality(LoopsOf(t)) = IF conf[t].workers <= 0 THEN 1 ELSE conf[t].workers

\* worker w leaves the end of an iteration
FinishStep(w) == pc[w] = "done" /\ pc'[w] # "done"

\* C9: an iteration makes one transport round trip and no more; when it
\* failed, the worker ends the iteration with the error recorded on the span,
\* the process keeps running and the worker is back at the top of the loop,
\* from where it can only go into the next jittered sleep.
TransportFailureAbsorbed ==
    /\ [](\A w \in WorkerIds : attempts[w] <= 1)
    /\ [][\A w \in WorkerIds :
            /\ (FinishStep(w) /\ res[w].err) =>
                    /\ attempts[w] = 1
                    /\ span'[w] = "endedError"
                    /\ pc'[w] = "top"
                    /\ proc' = "running"
            /\ (pc[w] = "top" /\ pc'[w] # "top") => pc'[w] = "sleep"]_vars

\* after two consecutive transport failures the worker is in its next sleep
TransportFailureAbsorbedWitness ==
    \E w \in WorkerIds : fails[w] >= 2 /\ pc[w] = "sleep" /\ proc = "running"

RECURSIVE SumOkTrips(_, _)
\* transport successes of label l over the status codes in S
SumOkTrips(l, S) ==
    IF S = {} THEN 0
    ELSE LET c == CHOOSE x \in S : TRUE
         IN okTrips[<<l, c, "GET">>] + SumOkTrips(l, S \ {c})

\* a response for label l has come back and is not yet observed
Unobserved(l) == {w \in WorkerIds : Target(w) = l /\ pc[w] = "returned" /\ ~res[w].err}

\* C10: the duration histogram of a target holds one observation for every
\* round trip that returned without error and none for a transport error.
DurationOnlyOnSuccess ==
    \A l \in Labels :
        reqLatencyVec[l] = SumOkTrips(l, Codes) - Cardinality(Unobserved(l))

\* one call failed in the transport, one was answered: one observation
DurationOnlyOnSuccessWitness ==
    \E w1, w2 \in WorkerIds :
        /\ pc[w1] = "top" /\ fails[w1] = 1
        /\ pc[w2] = "top" /\ span[w2] = "ended"
        /\ calls = 2
        /\ reqLatencyVec[Target(w1)] = 1

(***************************************************************************)
(* Properties of the span processor (specification SpecProc)               *)
(***************************************************************************)
\* sequences of span ids, the candidates for an ancestry chain
Chains(n) == UNION {[1..m -> SpanIDs] : m \in 1..n}

\* the line of span x was written before the line of span y
LineBefore(x, y) ==
    \E i, j \in 1..Len(out) : i < j /\ out[i].id = x /\ out[j].id = y

\* c is the whole ancestry of the span c[1] up to a root, and every span
\* of it was registered after its parent
OrderedAncestry(c) ==
    /\ \A j \in 1..(Len(c) - 1) : spans[c[j]] = c[j + 1] /\ LineBefore(c[j + 1], c[j])
    /\ spans[c[Len(c)]] = 0

\* C6: without overlapping OnStart calls, a span whose ancestors were all
\* registered parent-before-child up to a root is rendered at a depth equal
\* to the number of its ancestors.
AncestryDepth ==
    ~raced =>
        \A i \in 1..Len(out) : \A c \in Chains(MaxSpans) :
            (c[1] = out[i].id /\ OrderedAncestry(c)) => out[i].depth = Len(c) - 1

\* A root, B with parent A, C with parent B, in that order: depths 0, 1, 2
AncestryDepthWitness ==
    /\ ~raced
    /\ Len(out) = 3
    /\ spans[out[1].id] = 0 /\ out[1].depth = 0
    /\ spans[out[2].id] = out[1].id /\ out[2].depth = 1
    /\ spans[out[3].id] = out[2].id /\ out[3].depth = 2

\* C7: without overlapping OnStart calls, a span whose parent is not in
\* the registry is rendered at depth 0, and in general the depth of a line
\* is the number of ancestors found in the registry before the first parent
\* identifier that is null or not registered.
MissingParentIsRoot ==
    ~raced =>
        \A i \in 1..Len(out) :
            LET ln == out[i]
            IN /\ spans[ln.id] \notin ln.reg => ln.depth = 0
               /\ \E c \in [1..(ln.depth + 1) -> SpanIDs] :
                    /\ c[1] = ln.id
                    /\ \A j \in 1..ln.depth : spans[c[j]] = c[j + 1] /\ c[j + 1] \in ln.reg
                    /\ spans[c[ln.depth + 1]] \notin ln.reg

\* X with an unregistered parent Y is at depth 0, and a child of X at depth 1
MissingParentIsRootWitness ==
    /\ ~raced
    /\ Len(out) >= 2
    /\ spans[out[1].id] \in SpanIDs
    /\ spans[out[1].id] \notin DOMAIN spans
    /\ out[1].depth = 0
    /\ spans[out[2].id] = out[1].id
    /\ out[2].depth = 1

\* C8: no OnStart reads or writes the registry map while another OnStart
\* is writing it.
RegistryMutualExclusion == ~Overlap(opc)

(***************************************************************************)
(* C11: the decorators nest in-flight gauge, completion counter, duration   *)
(* histogram, transport: in every client.Do the gauge is incremented       *)
(* before the transport is invoked, the histogram observation and then     *)
(* the counter increment follow the transport's return, and the gauge is   *)
(* decremented last; a transport error skips the observation and the       *)
(* increment.                                                              *)
(***************************************************************************)
OkOrder == <<"gauge+", "transport", "histogram", "counter", "gauge-">>

ErrOrder == <<"gauge+", "transport", "gauge-">>

IsPrefix(a, b) == Len(a) <= Len(b) /\ a = SubSeq(b, 1, Len(a))

NestingOrder ==
    \A w \in WorkerIds :
        /\ IsPrefix(effects[w], OkOrder) \/ IsPrefix(effects[w], ErrOrder)
        /\ pc[w] = "done" => effects[w] = IF res[w].err THEN ErrOrder ELSE OkOrder

NestingOrderWitness ==
    \E w \in WorkerIds : pc[w] = "done" /\ ~res[w].err /\ effects[w] = OkOrder

(***************************************************************************)
(* C18: on every iteration whose request succeeds the response body is     *)
(* read and closed before the next iteration: at the top of an iteration,  *)
(* and until the next round trip returns, the worker holds no open body.   *)
(***************************************************************************)
BodyReleased ==
    \A w \in WorkerIds :
        /\ pc[w] \in {"top", "sleep", "span", "inflight"} => body[w] # "open"
        /\ pc[w] \in {"returned", "observed", "counted", "done"} /\ ~res[w].err
              => body[w] = "open"

BodyReleasedWitness ==
    \E w \in WorkerIds : pc[w] = "sleep" /\ body[w] = "closed" /\ span[w] = "ended"

(***************************************************************************)
(* C15: every loop iteration of every worker emits exactly one Ping Result *)
(* to the output channel, on success and on a transport error alike: the   *)
(* step that ends an iteration, the only one that knows the status or the  *)
(* error, sends one client.Result.                                         *)
(***************************************************************************)
OneResultPerIteration ==
    [][\A w \in WorkerIds :
          pc[w] = "done" /\ pc'[w] = "top" => results'[w] = results[w] + 1]_vars

(***************************************************************************)
(* C16: once main has received SIGINT or SIGTERM, no worker starts a new   *)
(* request before the process exits, and the process exits only when no    *)
(* request is in flight.                                                   *)
(***************************************************************************)
InRequest(w) == pc[w] \in {"inflight", "returned", "observed", "counted"}

GracefulShutdown ==
    [][/\ mainPc = "gotsig" => \A w \in WorkerIds : InRequest(w)' => InRequest(w)
       /\ proc = "running" /\ proc' = "exit0" => \A w \in WorkerIds : ~InRequest(w)]_vars

(***************************************************************************)
(* C17: the target label of a target's metrics is the target's name, and   *)
(* the target's url when the name is empty.                                *)
(***************************************************************************)
LabelUsed(l) ==
    \/ inFlightGauge[l] # 0
    \/ reqLatencyVec[l] # 0
    \/ \E k \in AllSeries : k[1] = l /\ requestCounter[k] # 0

WorkerStep(w) ==
    \/ PingStartSpan(w)
    \/ InFlightInc(w)
    \/ RoundTrip(w)
    \/ DurationObserve(w)
    \/ CounterInc(w)
    \/ InFlightDec(w)
    \/ PingFinish(w)

InIteration(w) ==
    pc[w] \in {"sleep", "span", "inflight", "returned", "observed", "counted", "done"}

ApiFailureIsolated ==
    /\ [](api = "failed" /\ proc = "running"
            => \A w \in WorkerIds : InIteration(w) => ENABLED WorkerStep(w))
    /\ [][api # "failed" /\ api' = "failed"
            => UNCHANGED <<proc, mainPc, tracer, sigs, pc, res, inFlightGauge,
                           requestCounter, reqLatencyVec, span, calls>>]_vars

ApiFailureIsolatedWitness ==
    /\ api = "failed"
    /\ proc = "running"
    /\ mainPc = "waiting"
    /\ \A w \in Spawned(conf) : pc[w] # "none"
    /\ \E w \in WorkerIds : pc[w] = "top" /\ span[w] = "ended"

(***************************************************************************)
(* C19: the processor writes exactly one line per OnStart call, and OnEnd  *)
(* writes nothing and changes neither the registry nor the output: the     *)
(* number of lines written is the number of OnStart calls that returned,   *)
(* whatever OnEnd calls came in between.                                   *)
(***************************************************************************)
OnStartCalls == Cardinality(Started) - Cardinality({g \in Goroutines : opc[g] # "idle"})

OutputOnlyAtStart ==
    /\ [](Len(out) = OnStartCalls)
    /\ [][~ends /\ ends' => UNCHANGED <<spans, out, opc, ospan, ocurr, lvl>>]_vars

OutputOnlyAtStartWitness ==
    /\ ends
    /\ Len(out) >= 2
    /\ \A g \in Goroutines : opc[g] = "idle"

(***************************************************************************)
(* C12: for every base >= 0, every fraction above 1 and every random draw, *)
(* Jitter returns a duration that is not negative.                         *)
(***************************************************************************)
JitterClampedAboveOne ==
    jpc = "returned" /\ fraction > 10 => jittered >= 0

(***************************************************************************)
(* C13: for every base >= 0, every fraction from 0 to 1 and every random   *)
(* draw, Jitter's result lies within [base*(1-fraction),                   *)
(* base*(1+fraction)] and is not negative.                                 *)
(***************************************************************************)
JitterWithinRange ==
    jpc = "returned" /\ fraction <= 10 =>
        /\ 10 * jittered >= base * (10 - fraction)
        /\ 10 * jittered <= base * (10 + fraction)
        /\ jittered >= 0

\* C13 as amended: the result is base*(1 + fraction*u) cut to a whole
\* duration, so it is less than one unit below base*(1-fraction), at most
\* base*(1+fraction), and not negative.
JitterWithinRangeTruncated ==
    jpc = "returned" /\ fraction <= 10 =>
        /\ 10 * jittered > base * (10 - fraction) - 10
        /\ 10 * jittered <= base * (10 + fraction)
        /\ jittered >= 0

JitterWithinRangeTruncatedWitness ==
    /\ jpc = "returned"
    /\ fraction <= 10
    /\ base > 0
    /\ draw = 0
    /\ 10 * jittered < base * (10 - fraction)

(***************************************************************************)
(* C14: in every iteration a configured delay that is zero or negative is  *)
(* replaced by the default delay of 10s and a configured jitter that is    *)
(* zero or negative by the default jitter of 0.2; a positive value is used *)
(* as it is.                                                               *)
(***************************************************************************)
DefaultFallback ==
    spc \in {"chosen", "slept"} =>
        /\ delay = IF tDuration <= 0 THEN defaultDelay ELSE tDuration
        /\ jitter = IF tJitter <= 0 THEN defaultJitter ELSE tJitter

(***************************************************************************)
(* C21: applyIndentation returns after finitely many steps whatever the    *)
(* registry holds, parent chains that form a cycle included: the walk is   *)
(* bounded by a visited set, so it never steps onto a span twice and its   *)
(* level stays below the number of registered spans.                       *)
(***************************************************************************)
WalkVisitsNoSpanTwice ==
    ~raced =>
        \A g \in Goroutines :
            opc[g] = "walk" => lvl[g] < Cardinality(DOMAIN spans)

(***************************************************************************)
(* C23: without overlapping OnStart calls, the registry only grows: no     *)
(* step removes or changes an entry, every OnStart adds the entry of its   *)
(* span, and the registry holds every span started so far.                 *)
(***************************************************************************)
Walking == {ospan[g].id : g \in {h \in Goroutines : opc[h] = "walk"}}

RegistryOnlyGrows ==
    /\ [](~raced =>
            /\ \A i \in 1..Len(out) : out[i].id \in DOMAIN spans
            /\ Walking \subseteq DOMAIN spans)
    /\ [][~raced' =>
            /\ DOMAIN spans \subseteq DOMAIN spans'
            /\ \A k \in DOMAIN spans : spans'[k] = spans[k]
            /\ \A g \in Goroutines :
                  opc[g] = "write" /\ opc'[g] = "walk" => ospan[g].id \in DOMAIN spans']_vars

RegistryOnlyGrowsWitness ==
    /\ ~raced
    /\ ends
    /\ Cardinality(DOMAIN spans) = MaxSpans
    /\ Len(out) = MaxSpans

(***************************************************************************)
(* C24: without overlapping OnStart calls, a child started before its      *)
(* parent is registered is written at depth 0, its line is never written   *)
(* again or changed when the parent is registered later, and a span        *)
(* started afterwards under that child gets a depth that counts the child  *)
(* and every ancestor of the child registered by then.                     *)
(***************************************************************************)
RECURSIVE RegAncestors(_, _, _)
RegAncestors(id, reg, fuel) ==
    IF fuel = 0 \/ spans[id] \notin reg
    THEN 0
    ELSE 1 + RegAncestors(spans[id], reg, fuel - 1)

OutOfOrderArrival ==
    /\ [](~raced =>
            \A i \in 1..Len(out) :
                LET c == out[i].id
                IN (spans[c] # 0 /\ spans[c] \notin out[i].reg) =>
                      /\ out[i].depth = 0
                      /\ \A j \in 1..Len(out) : out[j].id = c => j = i
                      /\ \A j \in (i + 1)..Len(out) :
                            spans[out[j].id] = c =>
                                out[j].depth = 1 + RegAncestors(c, out[j].reg, MaxSpans))
    /\ [][~raced' => Len(out') >= Len(out) /\ SubSeq(out', 1, Len(out)) = out]_vars

\* C with parent P is started first, then P, then a child of C: depths 0, 0, 2
OutOfOrderArrivalWitness ==
    /\ ~raced
    /\ Len(out) = 3
    /\ spans[out[1].id] = out[2].id
    /\ out[1].depth = 0
    /\ spans[out[2].id] = 0
    /\ spans[out[3].id] = out[1].id
    /\ out[3].depth = 2

(***************************************************************************)
(* C22: every iteration starts one zombie.ping span after the sleep and    *)
(* ends it before the next iteration begins, after a response and after a  *)
(* transport error alike: the worker's span is open exactly from the       *)
(* span's start to the end of the iteration, and is never open when an     *)
(* iteration begins or a span is started.                                  *)
(***************************************************************************)
OneSpanPerIteration ==
    \A w \in WorkerIds :
        /\ pc[w] \in {"none", "parse", "top", "sleep"} => span[w] # "open"
        /\ pc[w] \in {"span", "inflight", "returned", "observed", "counted", "done"}
              => span[w] = "open"
        /\ pc[w] \in {"top", "sleep"} /\ span[w] # "none"
              => span[w] = IF fails[w] > 0 THEN "endedError" ELSE "ended"

OneSpanPerIterationWitness ==
    \E w \in WorkerIds : pc[w] = "top" /\ span[w] = "endedError" /\ fails[w] = 2

(***************************************************************************)
(* C25: the in-flight gauge of a target name is at least 0 and at most     *)
(* the number of workers running against that target name.                 *)
(***************************************************************************)
RunningAgainst(l) == {w \in WorkerIds : Target(w) = l /\ pc[w] # "none"}

InFlightBounds ==
    \A l \in Labels :
        inFlightGauge[l] >= 0 /\ inFlightGauge[l] <= Cardinality(RunningAgainst(l))

InFlightBoundsWitness ==
    \E l \in Labels :
        /\ Cardinality(RunningAgainst(l)) = MaxWorkers
        /\ inFlightGauge[l] = MaxWorkers

(***************************************************************************)
(* C26: for every configuration, one in which no target sets otel_enabled  *)
(* included, no step of main's start fails: main does not panic, and once  *)
(* it is past the fan-out every target has its ping loops running.         *)
(***************************************************************************)
EngineStartsWithoutTracing ==
    /\ proc # "panic"
    /\ ~someOtel(conf) /\ mainPc # "start" => \A t \in TargetIds : LoopsOf(t) # {}

(***************************************************************************)
(* C27: after the handler's WriteHeader(s), followed by one or more Write  *)
(* or Flush calls, the recorded statusCode is still s; it is 200 by        *)
(* default only when no WriteHeader came before the first Write or Flush.  *)
(***************************************************************************)
DelegatorKeepsStatus ==
    followed => statusCode = IF hStatus = 0 THEN StatusOK ELSE hStatus
=============================================================================
